---- MODULE Spec2Model ----
(***************************************************************************)
(* Model of src/server.py: the MCP tool get_reviews, one invocation at a   *)
(* time.  Every call into the automation engine (playwright) and into the  *)
(* spreadsheet writer is one step that the environment lets succeed or     *)
(* fail; each such call is appended to `log`, the trace of external calls  *)
(* of the current invocation.  Strings that the tool returns are modelled  *)
(* as sequences of segments, texts read from the page as sequences of      *)
(* characters.                                                             *)
(***************************************************************************)
EXTENDS Integers, Sequences, FiniteSets, TLC

\* ---------------------------------------------------------------- bounds
MaxEntries == 3          \* most review entries the page ever mounts
MaxNumReviews == 25      \* largest num_reviews tried
MaxNegative == 2         \* num_reviews ranges down to -MaxNegative

\* ------------------------------------------------------- program constants
ScrollThreshold == 10    \* `if num_reviews > 10`
BatchSize == 10          \* `math.ceil(num_reviews / 10)`

\* ----------------------------------------------------------- input values
NoneValue == "<None>"
FilePaths == {NoneValue, "", "/data"}
PlaceNames == { <<"J", "o", "e", "'", "s", " ", "1">> }
NumReviewsRange == (0 - MaxNegative)..MaxNumReviews

\* ------------------------------------------------------------ page content
EmojiChars == {":smile:", ":pizza:"}
WhitespaceChars == {" ", "\n", "\t"}
AlnumChars == {"A", "B", "C", "G", "J", "N", "a", "b", "d", "e", "i", "l",
               "o", "r", "s", "t", "v", "w", "1"}
ReviewerNames == << <<"A", "l">>,
                    <<":smile:", "B", " ", "\t", "o">>,
                    <<"C", " ", ":pizza:", " ", "d">> >>
Ratings == << "5 stars", "1 star", NoneValue >>
Dates == << "a week ago", "2 months ago" >>
Bodies == { <<"G", "o", "o", "d">>,
            <<"b", "a", "d", "\n", "\n", ":pizza:", " ", "!">> }

Cyc(seq, i) == seq[((i - 1) % Len(seq)) + 1]

\* the review entry that the page renders at position i, with the given body
Entry(i, body) ==
    [reviewer |-> Cyc(ReviewerNames, i), rating |-> Cyc(Ratings, i),
     date |-> Cyc(Dates, i), body |-> body]

\* the rendered list after `bodies` more entries are mounted below `cur`
Mount(cur, bodies) ==
    cur \o [j \in 1..Len(bodies) |-> Entry(Len(cur) + j, bodies[j])]

\* every list the page may show after mounting further entries below `cur`
MountChoices(cur) ==
    { Mount(cur, bodies) :
        bodies \in UNION { [1..k -> Bodies] : k \in 0..(MaxEntries - Len(cur)) } }

\* ------------------------------------------------------------- pure helpers
Min(a, b) == IF a <= b THEN a ELSE b
Max(a, b) == IF a >= b THEN a ELSE b

Truthy(fp) == fp \notin {NoneValue, ""}

MissingSaveDir_NoneOnly(save, fp) == save /\ fp = NoneValue
\* `if save_reviews and not file_path`
MissingSaveDir(save, fp) == save /\ ~Truthy(fp)

RemoveEmoji(text) == SelectSeq(text, LAMBDA c : c \notin EmojiChars)

RECURSIVE DropLeadingWs(_)
DropLeadingWs(text) ==
    IF text /= <<>> /\ Head(text) \in WhitespaceChars
    THEN DropLeadingWs(Tail(text)) ELSE text

RECURSIVE CollapseWs(_)
CollapseWs(text) ==
    IF text = <<>> THEN <<>>
    ELSE IF Head(text) \in WhitespaceChars
         THEN <<" ">> \o CollapseWs(DropLeadingWs(text))
         ELSE <<Head(text)>> \o CollapseWs(Tail(text))

clean_text(text) == CollapseWs(RemoveEmoji(text))

NoReviewText == <<"N", "o", " ", "r", "e", "v", "i", "e", "w">>

CeilDiv(n, d) == IF n % d = 0 THEN n \div d ELSE (n \div d) + 1

ScrollSteps_NoMinusOne(n) == IF n > ScrollThreshold THEN CeilDiv(n, BatchSize) ELSE 0
\* number of mouse.wheel calls the reveal loop makes
ScrollSteps(n) == IF n > ScrollThreshold THEN CeilDiv(n, BatchSize) - 1 ELSE 0

PySlice_OneMore(seq, n) == SubSeq(seq, 1, Min(Max(n, 0) + 1, Len(seq)))
\* Python's seq[:n]
PySlice(seq, n) ==
    IF n >= 0 THEN SubSeq(seq, 1, Min(n, Len(seq)))
    ELSE SubSeq(seq, 1, Max(0, Len(seq) + n))

\* the dict appended to `reviews`
MakeRecord(place, reviewer, rating, date, review_text) ==
    [PlaceName |-> place, Reviewer |-> clean_text(reviewer), Rating |-> rating,
     Date |-> date, Review |-> clean_text(review_text)]

BodyText_Propagate(res, text) == text
\* value of review_text after the inner try/except
BodyText(res, text) == IF res = "timeout" THEN NoReviewText ELSE text

\* ---- returned strings, as sequences of segments
Seg(tag) == [tag |-> tag]
Block(i, rev) ==
    [tag |-> "review", header |-> i, Reviewer |-> rev.Reviewer, Date |-> rev.Date,
     Rating |-> rev.Rating, Review |-> rev.Review]
FullText(revs) == [i \in 1..Len(revs) |-> Block(i, revs[i])]
ToolMessage(revs) == <<Seg("preamble")>> \o FullText(revs)
GuidanceMessage == <<Seg("missing_save_dir")>>

CollectErrorMessage_Partial(revs) == <<Seg("unexpected_error")>> \o FullText(revs)
\* the string built by the outer `except Exception`
CollectErrorMessage(revs) == <<Seg("unexpected_error")>>

ExportErrorMessage_DropsReviews(msg) == <<Seg("export_error")>>
\* the string built by the inner `except Exception` around the export
ExportErrorMessage(msg) == <<Seg("export_error")>> \o msg

Sanitize(place) == SelectSeq(place, LAMBDA c : c \in AlnumChars)
OutputPath(fp, place) == <<fp, "/">> \o Sanitize(place) \o <<"_", "YYYYMMDD", ".xlsx">>
SavedMessage(fp, place, msg) ==
    <<[tag |-> "saved", path |-> OutputPath(fp, place)]>> \o msg

ShouldSave_Always(save) == TRUE
\* `if save_reviews:` after formatting
ShouldSave(save) == save

AsyncWithExit_LeakOnError(h, failed) == IF failed THEN h ELSE {}
\* what is still held once the `async with async_playwright()` block is left;
\* `failed` tells whether an exception is passing through the exit
AsyncWithExit(h, failed) == {}

Ev(op, entry, res) == [op |-> op, entry |-> entry, res |-> res]

\* ------------------------------------------------------------------- state
VARIABLES pc, num_reviews, save_reviews, file_path, place_name,
          held, mounted, scrolls_left, elements, idx, cur, reviews,
          tool_message, result, outcome, log

vars == <<pc, num_reviews, save_reviews, file_path, place_name,
          held, mounted, scrolls_left, elements, idx, cur, reviews,
          tool_message, result, outcome, log>>

args == <<num_reviews, save_reviews, file_path, place_name>>
locals == <<scrolls_left, elements, idx, cur, reviews, tool_message>>

NoCur == [reviewer |-> <<>>, rating |-> NoneValue, date |-> NoneValue]

Init ==
    /\ pc = "idle"
    /\ num_reviews = 20
    /\ save_reviews = FALSE
    /\ file_path = NoneValue
    /\ place_name = <<>>
    /\ held = {}
    /\ mounted = <<>>
    /\ scrolls_left = 0
    /\ elements = <<>>
    /\ idx = 0
    /\ cur = NoCur
    /\ reviews = <<>>
    /\ tool_message = <<>>
    /\ result = <<>>
    /\ outcome = "none"
    /\ log = <<>>

\* the entries the extraction loop iterates over
Selected == PySlice(elements, num_reviews)

\* ----------------------------------------------------- ways a step can end
\* an exception leaves get_reviews: the with-block is left, nothing is returned
Propagate ==
    /\ pc' = "done"
    /\ outcome' = "raised"
    /\ result' = <<>>
    /\ held' = AsyncWithExit(held, TRUE)

\* the outer `except Exception` returns the collection-error string
Abort ==
    /\ pc' = "done"
    /\ outcome' = "returned"
    /\ result' = CollectErrorMessage(reviews)
    /\ held' = AsyncWithExit(held, FALSE)

\* a `return` inside the with-block
Return(msg) ==
    /\ pc' = "done"
    /\ outcome' = "returned"
    /\ result' = msg
    /\ held' = AsyncWithExit(held, FALSE)

\* a call made before the try block
CallOutsideTry(here, op, next, acquired) ==
    /\ pc = here
    /\ \E res \in {"ok", "error"} :
         /\ log' = Append(log, Ev(op, 0, res))
         /\ IF res = "ok"
            THEN /\ pc' = next
                 /\ held' = held \cup acquired
                 /\ UNCHANGED <<outcome, result>>
            ELSE Propagate
    /\ UNCHANGED <<args, locals, mounted>>

\* a call made inside the try block that changes no local
CallInTry(here, op, next) ==
    /\ pc = here
    /\ \E res \in {"ok", "error"} :
         /\ log' = Append(log, Ev(op, 0, res))
         /\ IF res = "ok"
            THEN /\ pc' = next
                 /\ UNCHANGED <<outcome, result, held>>
            ELSE Abort
    /\ UNCHANGED <<args, locals, mounted>>

\* ----------------------------------------------------------------- actions
Invoke ==
    /\ pc \in {"idle", "done"}
    /\ num_reviews' \in NumReviewsRange
    /\ save_reviews' \in BOOLEAN
    /\ file_path' \in FilePaths
    /\ place_name' \in PlaceNames
    /\ pc' = "check_args"
    /\ held' = {}
    /\ mounted' = <<>>
    /\ scrolls_left' = 0
    /\ elements' = <<>>
    /\ idx' = 0
    /\ cur' = NoCur
    /\ reviews' = <<>>
    /\ tool_message' = <<>>
    /\ result' = <<>>
    /\ outcome' = "none"
    /\ log' = <<>>

CheckArgs ==
    /\ pc = "check_args"
    /\ IF MissingSaveDir(save_reviews, file_path)
       THEN /\ pc' = "done"
            /\ outcome' = "returned"
            /\ result' = GuidanceMessage
       ELSE /\ pc' = "start"
            /\ UNCHANGED <<outcome, result>>
    /\ UNCHANGED <<args, locals, mounted, held, log>>

StartPlaywright == CallOutsideTry("start", "async_playwright", "launch", {"playwright"})
Launch == CallOutsideTry("launch", "launch", "new_context", {"browser"})
NewContext == CallOutsideTry("new_context", "new_context", "new_page", {"context"})
NewPage == CallOutsideTry("new_page", "new_page", "goto", {"page"})
Goto == CallOutsideTry("goto", "goto", "wait_initial", {})
InitialWait == CallOutsideTry("wait_initial", "wait_5000", "wait_settle", {})

SettleWait == CallInTry("wait_settle", "wait_2500", "click_tab")

ClickReviewsTab ==
    /\ pc = "click_tab"
    /\ \E res \in {"ok", "error"} :
         /\ log' = Append(log, Ev("click_tab", 0, res))
         /\ IF res = "ok"
            THEN /\ pc' = "wait_tab"
                 /\ mounted' \in MountChoices(<<>>)
                 /\ UNCHANGED <<outcome, result, held>>
            ELSE Abort /\ UNCHANGED mounted
    /\ UNCHANGED <<args, locals>>

WaitAfterTab == CallInTry("wait_tab", "wait_3000_tab", "click_sort")
ClickSort == CallInTry("click_sort", "click_sort", "click_menu")
ClickMenuOption == CallInTry("click_menu", "click_menu", "wait_sort")
WaitAfterSort == CallInTry("wait_sort", "wait_3000_sort", "reveal")

BeginReveal ==
    /\ pc = "reveal"
    /\ scrolls_left' = ScrollSteps(num_reviews)
    /\ pc' = IF scrolls_left' > 0 THEN "wheel" ELSE "locate"
    /\ UNCHANGED <<args, held, mounted, elements, idx, cur, reviews,
                   tool_message, result, outcome, log>>

Wheel ==
    /\ pc = "wheel"
    /\ \E res \in {"ok", "error"} :
         /\ log' = Append(log, Ev("wheel", 0, res))
         /\ IF res = "ok"
            THEN /\ pc' = "wait_scroll"
                 /\ mounted' \in MountChoices(mounted)
                 /\ UNCHANGED <<outcome, result, held>>
            ELSE Abort /\ UNCHANGED mounted
    /\ UNCHANGED <<args, locals>>

WaitAfterScroll ==
    /\ pc = "wait_scroll"
    /\ \E res \in {"ok", "error"} :
         /\ log' = Append(log, Ev("wait_2000", 0, res))
         /\ IF res = "ok"
            THEN /\ scrolls_left' = scrolls_left - 1
                 /\ pc' = IF scrolls_left' > 0 THEN "wheel" ELSE "locate"
                 /\ UNCHANGED <<outcome, result, held>>
            ELSE Abort /\ UNCHANGED scrolls_left
    /\ UNCHANGED <<args, mounted, elements, idx, cur, reviews, tool_message>>

LocateAll ==
    /\ pc = "locate"
    /\ \E res \in {"ok", "error"} :
         /\ log' = Append(log, Ev("all", 0, res))
         /\ IF res = "ok"
            THEN /\ elements' = mounted
                 /\ idx' = 1
                 /\ pc' = IF PySlice(mounted, num_reviews) = <<>>
                          THEN "format" ELSE "read_reviewer"
                 /\ UNCHANGED <<outcome, result, held>>
            ELSE Abort /\ UNCHANGED <<elements, idx>>
    /\ UNCHANGED <<args, mounted, scrolls_left, cur, reviews, tool_message>>

ReadField(here, op, next, field) ==
    /\ pc = here
    /\ \E res \in {"ok", "error"} :
         /\ log' = Append(log, Ev(op, idx, res))
         /\ IF res = "ok"
            THEN /\ cur' = [cur EXCEPT ![field] = Selected[idx][field]]
                 /\ pc' = next
                 /\ UNCHANGED <<outcome, result, held>>
            ELSE Abort /\ UNCHANGED cur
    /\ UNCHANGED <<args, mounted, scrolls_left, elements, idx, reviews, tool_message>>

ReadReviewer == ReadField("read_reviewer", "reviewer", "read_rating", "reviewer")
ReadRating == ReadField("read_rating", "rating", "read_date", "rating")
ReadDate == ReadField("read_date", "date", "read_body", "date")

ReadBody ==
    /\ pc = "read_body"
    /\ \E res \in {"ok", "timeout", "error"} :
         /\ log' = Append(log, Ev("body", idx, res))
         /\ IF res = "error"
            THEN Abort /\ UNCHANGED <<reviews, idx, cur>>
            ELSE /\ reviews' = Append(reviews,
                        MakeRecord(place_name, cur.reviewer, cur.rating, cur.date,
                                   BodyText(res, Selected[idx].body)))
                 /\ idx' = idx + 1
                 /\ cur' = NoCur
                 /\ pc' = IF idx' > Len(Selected) THEN "format" ELSE "read_reviewer"
                 /\ UNCHANGED <<outcome, result, held>>
    /\ UNCHANGED <<args, mounted, scrolls_left, elements, tool_message>>

Format ==
    /\ pc = "format"
    /\ tool_message' = ToolMessage(reviews)
    /\ pc' = IF ShouldSave(save_reviews) THEN "export" ELSE "return"
    /\ UNCHANGED <<args, held, mounted, scrolls_left, elements, idx, cur, reviews,
                   result, outcome, log>>

Export ==
    /\ pc = "export"
    /\ \E res \in {"ok", "error"} :
         /\ log' = Append(log, Ev("to_excel", 0, res))
         /\ IF res = "ok"
            THEN Return(SavedMessage(file_path, place_name, tool_message))
            ELSE Return(ExportErrorMessage(tool_message))
    /\ UNCHANGED <<args, locals, mounted>>

ReturnMessage ==
    /\ pc = "return"
    /\ Return(tool_message)
    /\ UNCHANGED <<args, locals, mounted, log>>

Next ==
    \/ Invoke
    \/ CheckArgs
    \/ StartPlaywright
    \/ Launch
    \/ NewContext
    \/ NewPage
    \/ Goto
    \/ InitialWait
    \/ SettleWait
    \/ ClickReviewsTab
    \/ WaitAfterTab
    \/ ClickSort
    \/ ClickMenuOption
    \/ WaitAfterSort
    \/ BeginReveal
    \/ Wheel
    \/ WaitAfterScroll
    \/ LocateAll
    \/ ReadReviewer
    \/ ReadRating
    \/ ReadDate
    \/ ReadBody
    \/ Format
    \/ Export
    \/ ReturnMessage

Spec == Init /\ [][Next]_vars

\* ------------------------------------------------------ reading the trace
LogOps(op) == {i \in DOMAIN log : log[i].op = op}
NoFailure == \A i \in DOMAIN log : log[i].res /= "error"
Blocks(msg) == SelectSeq(msg, LAMBDA s : s.tag = "review")
Returned == pc = "done" /\ outcome = "returned"
ExtractionOps == {"all", "reviewer", "rating", "date", "body"}
AbortingOps == {"click_tab", "click_sort", "click_menu", "reviewer", "rating", "date"}

\* ------------------------------------------------------------------ claims

\* C1: every invocation of get_reviews ends by returning a string; no
\* failure of any step propagates to the caller as an exception.
C1_NeverRaises == outcome /= "raised"

\* C2: with save_reviews true and no file_path (None or empty) the invocation
\* returns the fixed missing-directory message and has made no call to the
\* browser or to the file writer and holds no resource.
C2_ExportGating ==
    (save_reviews /\ file_path \in {NoneValue, ""} /\ pc \notin {"idle", "check_args"})
        => /\ Returned
           /\ result = <<[tag |-> "missing_save_dir"]>>
           /\ log = <<>>
           /\ held = {}

C2_Witness ==
    Returned /\ save_reviews /\ file_path = "" /\ result = <<[tag |-> "missing_save_dir"]>>

\* C3: for num_reviews >= 0 and N mounted entries, when no step fails the
\* records are exactly the first min(num_reviews, N) mounted entries in
\* rendering order and the i-th block carries the header ==REVIEW i==.
C3_ExactPrefix ==
    (num_reviews >= 0 /\ Returned /\ NoFailure /\ log /= <<>>)
        => LET k == Min(num_reviews, Len(mounted))
               blocks == Blocks(result)
           IN  /\ Len(reviews) = k
               /\ Len(blocks) = k
               /\ \A i \in 1..k :
                    /\ reviews[i].Reviewer = clean_text(mounted[i].reviewer)
                    /\ reviews[i].Rating = mounted[i].rating
                    /\ reviews[i].Date = mounted[i].date
                    /\ reviews[i].Review \in {clean_text(mounted[i].body), NoReviewText}
                    /\ blocks[i].header = i
                    /\ blocks[i].Reviewer = reviews[i].Reviewer
                    /\ blocks[i].Rating = reviews[i].Rating
                    /\ blocks[i].Date = reviews[i].Date
                    /\ blocks[i].Review = reviews[i].Review

C3_Witness ==
    /\ Returned /\ NoFailure
    /\ num_reviews = 2 /\ Len(mounted) = 3 /\ Len(Blocks(result)) = 2
    /\ Blocks(result)[2].header = 2
    /\ Blocks(result)[1].Reviewer /= Blocks(result)[2].Reviewer

\* C4: the number of review records returned is never greater than
\* num_reviews, negative values included (stated in its weakest reading:
\* never greater than max(num_reviews, 0)).
C4_AtMostRequested ==
    Returned => Len(Blocks(result)) <= Max(num_reviews, 0)

\* C5: when the export fails after collection and formatting, the returned
\* string is the export-failure explanation followed by the preamble and
\* every formatted review block; it is not the collection-error message.
C5_ExportFailureKeepsReviews ==
    (pc = "done" /\ \E i \in DOMAIN log : log[i] = Ev("to_excel", 0, "error"))
        => /\ outcome = "returned"
           /\ Len(result) = Len(reviews) + 2
           /\ result[1].tag = "export_error"
           /\ result[2].tag = "preamble"
           /\ Len(reviews) = Cardinality({i \in LogOps("body") : log[i].res /= "error"})
           /\ \A i \in 1..Len(reviews) :
                /\ result[i + 2].tag = "review"
                /\ result[i + 2].header = i
                /\ result[i + 2].Reviewer = reviews[i].Reviewer
                /\ result[i + 2].Review = reviews[i].Review
           /\ \A i \in DOMAIN result : result[i].tag /= "unexpected_error"

C5_Witness ==
    /\ Returned
    /\ \E i \in DOMAIN log : log[i] = Ev("to_excel", 0, "error")
    /\ Len(reviews) = 2
    /\ Len(Blocks(result)) = 2

\* C6: a failed click on the Reviews tab, the Sort button or the menu option,
\* or a failed read of reviewer, rating or date, ends the invocation with the
\* single collection-error message, without any review block, and the failed
\* step is not attempted again.
C6_AbortAbandons ==
    \A i \in DOMAIN log :
        (log[i].res = "error" /\ log[i].op \in AbortingOps)
            => /\ i = Len(log)
               /\ Returned
               /\ result = <<[tag |-> "unexpected_error"]>>
               /\ Blocks(result) = <<>>
               /\ \A j \in DOMAIN log :
                    (log[j].op = log[i].op /\ log[j].entry = log[i].entry) => j = i

C6_Witness ==
    /\ Returned
    /\ log /= <<>>
    /\ log[Len(log)] = Ev("date", 2, "error")
    /\ Len(reviews) = 1
    /\ result = <<[tag |-> "unexpected_error"]>>

\* C7: when the read of an entry's body times out, the entry's record has
\* Review = 'No review', extraction goes on with the next entry, and the
\* entry still appears in the returned text.
C7_BodyTimeoutSentinel ==
    \A i \in DOMAIN log :
        (log[i].op = "body" /\ log[i].res = "timeout")
            => LET e == log[i].entry
               IN  /\ Len(reviews) >= e
                   /\ reviews[e].Review = NoReviewText
                   /\ i = Len(log) =>
                        /\ outcome /= "raised"
                        /\ pc \in {"read_reviewer", "format", "export", "return", "done"}
                        /\ Returned => result[1].tag /= "unexpected_error"
                   /\ (Returned /\ NoFailure) =>
                        /\ Len(Blocks(result)) = Cardinality(LogOps("reviewer"))
                        /\ Blocks(result)[e].header = e
                        /\ Blocks(result)[e].Review = NoReviewText

C7_Witness ==
    /\ Returned /\ NoFailure
    /\ \E i, j \in DOMAIN log :
         /\ log[i] = Ev("body", 1, "timeout")
         /\ log[j] = Ev("body", 2, "ok")
    /\ Len(Blocks(result)) = 2
    /\ Blocks(result)[1].Review = NoReviewText
    /\ Blocks(result)[2].Review /= NoReviewText

\* C8: once an invocation has ended, by a return or by an exception, nothing
\* it acquired (playwright driver, browser, context, page) is still held.
C8_Released == pc = "done" => held = {}

C8_Witness ==
    /\ pc = "done" /\ outcome = "raised"
    /\ \E i \in DOMAIN log : log[i] = Ev("launch", 0, "ok")
    /\ held = {}

\* C9: the reveal phase makes no scroll step when num_reviews <= 10 and
\* ceil(num_reviews / 10) - 1 scroll steps otherwise; each scroll is followed
\* by a settle wait; every scroll comes after the sort selection and before
\* the first extraction call.
C9_ScrollSteps ==
    /\ (LogOps("all") /= {}) =>
          LET k == Cardinality(LogOps("wheel"))
          IN  IF num_reviews <= 10 THEN k = 0
              ELSE 10 * k < num_reviews /\ num_reviews <= 10 * (k + 1)
    /\ \A i \in LogOps("wheel") :
          /\ \E j \in 1..(i - 1) : log[j] = Ev("click_menu", 0, "ok")
          /\ \A j \in DOMAIN log : log[j].op \in ExtractionOps => i < j
          /\ log[i].res = "ok" =>
                IF i = Len(log) THEN pc = "wait_scroll"
                ELSE log[i + 1].op = "wait_2000"

C9_Witness ==
    /\ num_reviews = 25
    /\ LogOps("all") /= {}
    /\ Cardinality(LogOps("wheel")) = 2
    /\ Cardinality(LogOps("wait_2000")) = 2

\* C10: a file write is attempted at most once per invocation, only with
\* save_reviews true and a non-empty file_path, only after every selected
\* entry is extracted and the text is formatted; an invocation that aborts
\* during activation, scrolling or extraction writes no file.
C10_WriteOnlyAfterCollection ==
    /\ Cardinality(LogOps("to_excel")) <= 1
    /\ \A i \in LogOps("to_excel") :
          /\ save_reviews
          /\ file_path \notin {NoneValue, ""}
          /\ \A j \in 1..(i - 1) : log[j].res /= "error"
          /\ \A j \in DOMAIN log : log[j].op \in ExtractionOps => j < i
          /\ Len(reviews) = Len(Selected)
          /\ Len(reviews) = Cardinality(LogOps("body"))
          /\ tool_message = <<[tag |-> "preamble"]>> \o FullText(reviews)
    /\ (\E j \in DOMAIN log : log[j].res = "error" /\ log[j].op /= "to_excel")
          => LogOps("to_excel") = {}

C10_Witness ==
    /\ Returned
    /\ \E i \in DOMAIN log : log[i] = Ev("to_excel", 0, "ok")
    /\ Len(reviews) = 2
    /\ result[1].tag = "saved"

TypeOK ==
    /\ num_reviews \in NumReviewsRange \cup {20}
    /\ save_reviews \in BOOLEAN
    /\ outcome \in {"none", "returned", "raised"}
    /\ held \subseteq {"playwright", "browser", "context", "page"}
    /\ Len(mounted) <= MaxEntries
====
